---- MODULE Spec2Model ----
(***************************************************************************)
(* Proxy sequences of vot/dataset/proxy.py: ProxySequence, FrameMapChannel, *)
(* FrameMapSequence and ChannelFilterSequence over a base sequence.         *)
(*                                                                          *)
(* A session wraps a base sequence in at most two views (the first wraps    *)
(* the base sequence, the second wraps the first) and calls the sequence    *)
(* protocol on the outermost view.  Every call records what it returned or  *)
(* raised in `result`.                                                      *)
(*                                                                          *)
(* The base sequence, its channels and the Frame handle are classes of      *)
(* vot.dataset that proxy.py imports; they are modelled from the protocol   *)
(* description.  The data of the base sequence are kept symbolic: the       *)
(* region, tag set, value mapping, image and file name of frame j are the   *)
(* distinct terms [tag |-> ..., at |-> j].                                  *)
(***************************************************************************)
EXTENDS Integers, Sequences, FiniteSets, TLC

\* Longest base sequence.
MaxLen == 2
\* Longest candidate index list handed to FrameMapSequence.
MaxMap == 2
\* Longest candidate index list of a FrameMapSequence that wraps another view.
MaxStackedMap == 1

\* Channel names in use; a base sequence has a subset of them.
ChannelNames == {"color", "ir"}
\* The argument channel=None.
NoName == "<None>"
\* The view objects of a session: view 1 wraps the base sequence (object 0),
\* view 2 wraps view 1.
ViewIds == {1, 2}

VARIABLES
    srcLen,       \* base sequence: number of frames
    srcChannels,  \* base sequence: names of its channels
    srcDefault,   \* base sequence: its default channel (NoName when it has none)
    views,        \* the views constructed so far; views[v]._source is object v-1
    call,         \* the last call: [op, view, index, name]
    result        \* what the last call returned or raised

vars == <<srcLen, srcChannels, srcDefault, views, call, result>>

----------------------------------------------------------------------------
(* Python values *)

None == [tag |-> "None"]
Raise(e) == [tag |-> "raise", error |-> e]
IndexError == Raise("IndexError")
AttributeError == Raise("AttributeError")
IsRaise(r) == r.tag = "raise"
PyInt(n) == [tag |-> "int", value |-> n]
List(s) == [tag |-> "list", items |-> s]
Names(S) == [tag |-> "names", items |-> S]
Object(v) == [tag |-> "object", id |-> v]

\* The argument index=None, and an explicit index.
NoIndex == [none |-> TRUE, i |-> 0]
At(i) == [none |-> FALSE, i |-> i]

\* list[i]: Python's subscript of a list, which counts a negative i from the end
\* and raises IndexError outside -len .. len-1.
ListIndexOk(list, i) == 0 - Len(list) <= i /\ i < Len(list)
ListItem(list, i) == IF i >= 0 THEN list[i + 1] ELSE list[Len(list) + i + 1]

\* The first exception raised while a list of results is built, if any.
FirstRaise(items) ==
    LET k == CHOOSE k \in 1..Len(items) :
                 IsRaise(items[k]) /\ \A j \in 1..(k - 1) : ~IsRaise(items[j])
    IN items[k]
ListOrRaise(items) ==
    IF \E k \in 1..Len(items) : IsRaise(items[k]) THEN FirstRaise(items) ELSE List(items)

----------------------------------------------------------------------------
(* The base sequence, its channels and the frame handle (vot.dataset) *)

SrcInRange(i) == 0 <= i /\ i < srcLen
Datum(kind, j) == [tag |-> kind, at |-> j]
SrcPerFrame(kind, index) ==
    IF index.none THEN List([j \in 1..srcLen |-> Datum(kind, j - 1)])
    ELSE IF SrcInRange(index.i) THEN Datum(kind, index.i)
    ELSE IndexError

Sequence_length == srcLen
Sequence_groundtruth(index) == SrcPerFrame("region", index)
Sequence_tags(index) == SrcPerFrame("tags", index)
Sequence_values(index) == SrcPerFrame("values", index)
Sequence_channels == Names(srcChannels)
Sequence_channel(channel) ==
    LET n == IF channel = NoName THEN srcDefault ELSE channel
    IN IF n \in srcChannels THEN [tag |-> "Channel", name |-> n] ELSE None

Channel_length(c) == srcLen
Channel_frame(c, index) ==
    IF SrcInRange(index) THEN [tag |-> "image", channel |-> c.name, at |-> index]
    ELSE IndexError
Channel_filename(c, index) ==
    IF SrcInRange(index) THEN [tag |-> "filename", channel |-> c.name, at |-> index]
    ELSE IndexError

\* Frame(sequence, index): the handle, an (owning sequence, index) pair.
Frame(sequence, index) == [tag |-> "Frame", sequence |-> sequence, index |-> index]

----------------------------------------------------------------------------
(* Dispatch on the class of object v: 0 is the base sequence, v > 0 a view whose
   _source is object v - 1. *)

Kind(v) == IF v = 0 THEN "Sequence" ELSE views[v].kind
HasAttr(v, a) == a \in views[v].attrs

RECURSIVE Seq_length(_)
RECURSIVE Seq_groundtruth(_, _)
RECURSIVE Seq_tags(_, _)
RECURSIVE Seq_values(_, _)
RECURSIVE Seq_channel(_, _)
RECURSIVE Seq_channels(_)
RECURSIVE Chan_length(_)
RECURSIVE Chan_frame(_, _)
RECURSIVE Chan_filename(_, _)

----------------------------------------------------------------------------
(* class FrameMapChannel *)

FrameMapChannel(source, frame_map) ==
    [tag |-> "FrameMapChannel", _source |-> source, _map |-> frame_map]

FrameMapChannel_length(c) == Len(c._map)

FrameMapChannel_frame(c, index) ==
    IF ListIndexOk(c._map, index) THEN Chan_frame(c._source, ListItem(c._map, index))
    ELSE IndexError

FrameMapChannel_filename(c, index) ==
    IF ListIndexOk(c._map, index) THEN Chan_filename(c._source, ListItem(c._map, index))
    ELSE IndexError

Chan_length(c) ==
    IF c.tag = "FrameMapChannel" THEN FrameMapChannel_length(c) ELSE Channel_length(c)
Chan_frame(c, index) ==
    IF c.tag = "FrameMapChannel" THEN FrameMapChannel_frame(c, index)
    ELSE Channel_frame(c, index)
Chan_filename(c, index) ==
    IF c.tag = "FrameMapChannel" THEN FrameMapChannel_filename(c, index)
    ELSE Channel_filename(c, index)

----------------------------------------------------------------------------
(* class ProxySequence *)

\* The attributes every view object starts with; frame_map and channels keep the
\* constructor's arguments.
NewView(kind) ==
    [kind |-> kind, attrs |-> {"_source"}, _map |-> <<>>, _filter |-> {},
     _channels |-> {}, frame_map |-> <<>>, channels |-> {}]

ProxySequence_init == NewView("ProxySequence")
\* Mutant: the handle names the source instead of the proxy.
Mutant_ProxySequence_frame(v, index) == Frame(v - 1, index)
ProxySequence_frame(v, index) == Frame(v, index)
ProxySequence_channel(v, channel) == Seq_channel(v - 1, channel)
ProxySequence_channels(v) == Seq_channels(v - 1)
ProxySequence_groundtruth(v, index) == Seq_groundtruth(v - 1, index)
ProxySequence_tags(v, index) == Seq_tags(v - 1, index)
ProxySequence_values(v, index) == Seq_values(v - 1, index)
ProxySequence_length(v) == Seq_length(v - 1)

----------------------------------------------------------------------------
(* class FrameMapSequence *)

\* Mutant: the bounds test admits the index equal to the source's length.
Mutant_FrameMapSequence_init(source, frame_map) ==
    [NewView("FrameMapSequence") EXCEPT
        !.attrs = @ \cup {"_map"},
        !._map = SelectSeq(frame_map, LAMBDA i : i >= 0 /\ i <= Seq_length(source)),
        !.frame_map = frame_map]
FrameMapSequence_init(source, frame_map) ==
    [NewView("FrameMapSequence") EXCEPT
        !.attrs = @ \cup {"_map"},
        !._map = SelectSeq(frame_map, LAMBDA i : i >= 0 /\ i < Seq_length(source)),
        !.frame_map = frame_map]

FrameMapSequence_frame(v, index) ==
    IF ListIndexOk(views[v]._map, index) THEN Frame(v, ListItem(views[v]._map, index))
    ELSE IndexError

\* Mutant: the channel is forwarded as ProxySequence does, without the map.
Mutant_FrameMapSequence_channel(v, channel) == Seq_channel(v - 1, channel)
FrameMapSequence_channel(v, channel) ==
    LET sourcechannel == Seq_channel(v - 1, channel)
    IN IF IsRaise(sourcechannel) THEN sourcechannel
       ELSE IF sourcechannel = None THEN None
       ELSE FrameMapChannel(sourcechannel, views[v]._map)

FrameMapSequence_channels(v) == Seq_channels(v - 1)

\* Mutant: the omitted-index form forwards the source's list, as tags() does.
Mutant_FrameMapSequence_groundtruth(v, index) ==
    LET map == views[v]._map
    IN IF index.none THEN Seq_groundtruth(v - 1, NoIndex)
       ELSE IF ListIndexOk(map, index.i)
            THEN Seq_groundtruth(v - 1, At(ListItem(map, index.i)))
            ELSE IndexError
FrameMapSequence_groundtruth(v, index) ==
    LET map == views[v]._map
    IN IF index.none
       THEN ListOrRaise([i \in 1..Len(map) |-> Seq_groundtruth(v - 1, At(map[i]))])
       ELSE IF ListIndexOk(map, index.i)
            THEN Seq_groundtruth(v - 1, At(ListItem(map, index.i)))
            ELSE IndexError

FrameMapSequence_tags(v, index) ==
    LET map == views[v]._map
    IN IF index.none THEN Seq_tags(v - 1, NoIndex)
       ELSE IF ListIndexOk(map, index.i)
            THEN Seq_tags(v - 1, At(ListItem(map, index.i)))
            ELSE IndexError

FrameMapSequence_values(v, index) ==
    LET map == views[v]._map
    IN IF index.none THEN Seq_values(v - 1, NoIndex)
       ELSE IF ListIndexOk(map, index.i)
            THEN Seq_values(v - 1, At(ListItem(map, index.i)))
            ELSE IndexError

FrameMapSequence_length(v) == Len(views[v]._map)

----------------------------------------------------------------------------
(* class ChannelFilterSequence *)

\* source.channels() is evaluated once per element of the comprehension, so an
\* empty `channels` never calls it.
ChannelFilterSequence_init_raises(source, channels) ==
    channels # {} /\ IsRaise(Seq_channels(source))

ChannelFilterSequence_init(source, channels) ==
    [NewView("ChannelFilterSequence") EXCEPT
        !.attrs = @ \cup {"_filter"},
        !._filter = IF channels = {} THEN {}
                    ELSE {i \in channels : i \in Seq_channels(source).items},
        !.channels = channels]

ChannelFilterSequence_channel(v, channel) ==
    IF channel \notin views[v]._filter THEN None
    ELSE LET sourcechannel == Seq_channel(v - 1, channel)
         IN IF IsRaise(sourcechannel) THEN sourcechannel
            ELSE IF sourcechannel = None THEN None
            ELSE IF HasAttr(v, "_map") THEN FrameMapChannel(sourcechannel, views[v]._map)
            ELSE AttributeError

ChannelFilterSequence_channels(v) ==
    IF HasAttr(v, "_channels") THEN Names(views[v]._channels) ELSE AttributeError

----------------------------------------------------------------------------
(* Method resolution *)

Seq_length(v) ==
    IF v = 0 THEN Sequence_length
    ELSE IF Kind(v) = "FrameMapSequence" THEN FrameMapSequence_length(v)
    ELSE ProxySequence_length(v)

Seq_groundtruth(v, index) ==
    IF v = 0 THEN Sequence_groundtruth(index)
    ELSE IF Kind(v) = "FrameMapSequence" THEN FrameMapSequence_groundtruth(v, index)
    ELSE ProxySequence_groundtruth(v, index)

Seq_tags(v, index) ==
    IF v = 0 THEN Sequence_tags(index)
    ELSE IF Kind(v) = "FrameMapSequence" THEN FrameMapSequence_tags(v, index)
    ELSE ProxySequence_tags(v, index)

Seq_values(v, index) ==
    IF v = 0 THEN Sequence_values(index)
    ELSE IF Kind(v) = "FrameMapSequence" THEN FrameMapSequence_values(v, index)
    ELSE ProxySequence_values(v, index)

Seq_channel(v, channel) ==
    IF v = 0 THEN Sequence_channel(channel)
    ELSE IF Kind(v) = "FrameMapSequence" THEN FrameMapSequence_channel(v, channel)
    ELSE IF Kind(v) = "ChannelFilterSequence" THEN ChannelFilterSequence_channel(v, channel)
    ELSE ProxySequence_channel(v, channel)

Seq_channels(v) ==
    IF v = 0 THEN Sequence_channels
    ELSE IF Kind(v) = "FrameMapSequence" THEN FrameMapSequence_channels(v)
    ELSE IF Kind(v) = "ChannelFilterSequence" THEN ChannelFilterSequence_channels(v)
    ELSE ProxySequence_channels(v)

Seq_frame(v, index) ==
    IF Kind(v) = "FrameMapSequence" THEN FrameMapSequence_frame(v, index)
    ELSE ProxySequence_frame(v, index)

\* A consumer resolving a frame handle through its owning sequence.
Frame_resolve(accessor, frame) ==
    IF accessor = "groundtruth" THEN Seq_groundtruth(frame.sequence, At(frame.index))
    ELSE IF accessor = "tags" THEN Seq_tags(frame.sequence, At(frame.index))
    ELSE Seq_values(frame.sequence, At(frame.index))

----------------------------------------------------------------------------
(* The session *)

Top == Len(views)
Max(a, b) == IF a > b THEN a ELSE b

\* Candidate index lists over a source of length n: entries from -1 (negative) to
\* n (too large), in any order, with repetitions.
CandidateMaps(n, longest) == UNION {[1..k -> (0 - 1)..n] : k \in 0..longest}
\* Explicit indices a caller passes.
IndexArgs == (0 - 1)..Max(MaxLen, MaxMap)
NameArgs == ChannelNames \cup {NoName}

Called(op, v, index, name) == [op |-> op, view |-> v, index |-> index, name |-> name]

\* No view changes after its construction and no call has an effect on a later
\* one, so the caller makes each call right after the construction of the views.
Constructed == call.op \in {"ProxySequence", "FrameMapSequence", "ChannelFilterSequence"}

Init ==
    /\ srcLen \in 0..MaxLen
    /\ srcChannels \in SUBSET ChannelNames
    /\ srcDefault \in (IF srcChannels = {} THEN {NoName} ELSE srcChannels)
    /\ views = <<>>
    /\ call = Called("Sequence", 0, NoIndex, NoName)
    /\ result = Object(0)

NewProxySequence ==
    /\ Top + 1 \in ViewIds
    /\ Top > 0 => Constructed
    /\ views' = Append(views, ProxySequence_init)
    /\ call' = Called("ProxySequence", Top + 1, NoIndex, NoName)
    /\ result' = Object(Top + 1)
    /\ UNCHANGED <<srcLen, srcChannels, srcDefault>>

NewFrameMapSequence ==
    /\ Top + 1 \in ViewIds
    /\ Top > 0 => Constructed
    /\ \E frame_map \in CandidateMaps(Seq_length(Top),
                                       IF Top = 0 THEN MaxMap ELSE MaxStackedMap) :
           views' = Append(views, FrameMapSequence_init(Top, frame_map))
    /\ call' = Called("FrameMapSequence", Top + 1, NoIndex, NoName)
    /\ result' = Object(Top + 1)
    /\ UNCHANGED <<srcLen, srcChannels, srcDefault>>

NewChannelFilterSequence ==
    /\ Top + 1 \in ViewIds
    /\ Top > 0 => Constructed
    /\ \E channels \in SUBSET ChannelNames :
           IF ChannelFilterSequence_init_raises(Top, channels)
           THEN /\ views' = views
                /\ call' = Called("ChannelFilterSequence", Top, NoIndex, NoName)
                /\ result' = Seq_channels(Top)
           ELSE /\ views' = Append(views, ChannelFilterSequence_init(Top, channels))
                /\ call' = Called("ChannelFilterSequence", Top + 1, NoIndex, NoName)
                /\ result' = Object(Top + 1)
    /\ UNCHANGED <<srcLen, srcChannels, srcDefault>>

CallLength ==
    /\ Top > 0
    /\ Constructed
    /\ call' = Called("length", Top, NoIndex, NoName)
    /\ result' = PyInt(Seq_length(Top))
    /\ UNCHANGED <<srcLen, srcChannels, srcDefault, views>>

CallFrame ==
    /\ Top > 0
    /\ Constructed
    /\ \E i \in IndexArgs :
           /\ call' = Called("frame", Top, At(i), NoName)
           /\ result' = Seq_frame(Top, i)
    /\ UNCHANGED <<srcLen, srcChannels, srcDefault, views>>

\* frame(i).groundtruth(), .tags(), .values(): the handle just returned, resolved.
ResolveOp(accessor) ==
    IF accessor = "groundtruth" THEN "frame.groundtruth"
    ELSE IF accessor = "tags" THEN "frame.tags"
    ELSE "frame.values"

ResolveFrame ==
    /\ call.op = "frame"
    /\ result.tag = "Frame"
    /\ \E accessor \in {"groundtruth", "tags", "values"} :
           /\ call' = [call EXCEPT !.op = ResolveOp(accessor)]
           /\ result' = [tag |-> "resolved", frame |-> result,
                         data |-> Frame_resolve(accessor, result)]
    /\ UNCHANGED <<srcLen, srcChannels, srcDefault, views>>

CallGroundtruth ==
    /\ Top > 0
    /\ Constructed
    /\ \E index \in {NoIndex} \cup {At(i) : i \in IndexArgs} :
           /\ call' = Called("groundtruth", Top, index, NoName)
           /\ result' = Seq_groundtruth(Top, index)
    /\ UNCHANGED <<srcLen, srcChannels, srcDefault, views>>

CallTags ==
    /\ Top > 0
    /\ Constructed
    /\ \E index \in {NoIndex} \cup {At(i) : i \in IndexArgs} :
           /\ call' = Called("tags", Top, index, NoName)
           /\ result' = Seq_tags(Top, index)
    /\ UNCHANGED <<srcLen, srcChannels, srcDefault, views>>

CallValues ==
    /\ Top > 0
    /\ Constructed
    /\ \E index \in {NoIndex} \cup {At(i) : i \in IndexArgs} :
           /\ call' = Called("values", Top, index, NoName)
           /\ result' = Seq_values(Top, index)
    /\ UNCHANGED <<srcLen, srcChannels, srcDefault, views>>

CallChannels ==
    /\ Top > 0
    /\ Constructed
    /\ call' = Called("channels", Top, NoIndex, NoName)
    /\ result' = Seq_channels(Top)
    /\ UNCHANGED <<srcLen, srcChannels, srcDefault, views>>

CallChannel ==
    /\ Top > 0
    /\ Constructed
    /\ \E name \in NameArgs :
           /\ call' = Called("channel", Top, NoIndex, name)
           /\ result' = Seq_channel(Top, name)
    /\ UNCHANGED <<srcLen, srcChannels, srcDefault, views>>

\* view.channel(name).length, .frame(i), .filename(i) on the channel just returned.
ReturnedChannel == call.op = "channel" /\ result.tag \in {"Channel", "FrameMapChannel"}

CallChannelLength ==
    /\ ReturnedChannel
    /\ call' = [call EXCEPT !.op = "channel.length"]
    /\ result' = [tag |-> "of", channel |-> result, data |-> PyInt(Chan_length(result))]
    /\ UNCHANGED <<srcLen, srcChannels, srcDefault, views>>

CallChannelFrame ==
    /\ ReturnedChannel
    /\ \E i \in IndexArgs :
           /\ call' = [call EXCEPT !.op = "channel.frame", !.index = At(i)]
           /\ result' = [tag |-> "of", channel |-> result, data |-> Chan_frame(result, i)]
    /\ UNCHANGED <<srcLen, srcChannels, srcDefault, views>>

CallChannelFilename ==
    /\ ReturnedChannel
    /\ \E i \in IndexArgs :
           /\ call' = [call EXCEPT !.op = "channel.filename", !.index = At(i)]
           /\ result' = [tag |-> "of", channel |-> result, data |-> Chan_filename(result, i)]
    /\ UNCHANGED <<srcLen, srcChannels, srcDefault, views>>

Next ==
    \/ NewProxySequence
    \/ NewFrameMapSequence
    \/ NewChannelFilterSequence
    \/ CallLength
    \/ CallFrame
    \/ ResolveFrame
    \/ CallGroundtruth
    \/ CallTags
    \/ CallValues
    \/ CallChannels
    \/ CallChannel
    \/ CallChannelLength
    \/ CallChannelFrame
    \/ CallChannelFilename

Spec == Init /\ [][Next]_vars

----------------------------------------------------------------------------
(* The claims.  Each is about the last call: `call` names the operation, the view
   it was made on and its arguments, `result` what it returned or raised. *)

\* The sublist of the entries x of m with 0 <= x < n, in their order.
RECURSIVE KeepValid(_, _)
KeepValid(m, n) ==
    IF m = <<>> THEN <<>>
    ELSE (IF 0 <= Head(m) /\ Head(m) < n THEN <<Head(m)>> ELSE <<>>) \o KeepValid(Tail(m), n)

\* The filtered map the claims speak of, for the frame-remapping view v.
ClaimedMap(v) == KeepValid(views[v].frame_map, Seq_length(v - 1))
InView(v, i) == 0 <= i /\ i < Seq_length(v)
OnFrameMap == call.view > 0 /\ Kind(call.view) = "FrameMapSequence"
OnChannelFilter == call.view > 0 /\ Kind(call.view) = "ChannelFilterSequence"
SourceData(accessor, v, index) ==
    IF accessor = "groundtruth" THEN Seq_groundtruth(v - 1, index)
    ELSE IF accessor = "tags" THEN Seq_tags(v - 1, index)
    ELSE Seq_values(v - 1, index)
ViewData(accessor, v, index) ==
    IF accessor = "groundtruth" THEN Seq_groundtruth(v, index)
    ELSE IF accessor = "tags" THEN Seq_tags(v, index)
    ELSE Seq_values(v, index)

\* C1: on FrameRemap(S, m), groundtruth(i) for 0 <= i < length() is
\* S.groundtruth(map[i]), map being the valid entries of m in their order, and
\* groundtruth() is the list of exactly length() entries whose entry i is
\* S.groundtruth(map[i]).
C1_GroundtruthThroughMap ==
    (call.op = "groundtruth" /\ OnFrameMap) =>
        LET v == call.view
            map == ClaimedMap(v)
        IN /\ (~call.index.none /\ InView(v, call.index.i)) =>
                  result = Seq_groundtruth(v - 1, At(map[call.index.i + 1]))
           /\ call.index.none =>
                  /\ result.tag = "list"
                  /\ Len(result.items) = Seq_length(v)
                  /\ \A i \in 1..Len(result.items) :
                         /\ result.items[i] = Seq_groundtruth(v - 1, At(map[i]))
                         /\ result.items[i] = Seq_groundtruth(v, At(i - 1))

\* A per-index groundtruth call over a candidate list with a dropped entry, whose
\* result is the region of another source frame than the index asked.
C1_Witness ==
    /\ call.op = "groundtruth" /\ OnFrameMap /\ call.view = 1
    /\ ~call.index.none /\ InView(1, call.index.i)
    /\ Len(views[1]._map) < Len(views[1].frame_map)
    /\ result.tag = "region" /\ result.at # call.index.i

\* C2: on a frame-remapping view V, frame(i) for 0 <= i < length() returns the
\* handle (V, i), and resolving the handle through V yields the source's data at
\* map[i].
C2_FrameHandleLocalIndex ==
    (OnFrameMap /\ InView(call.view, call.index.i)) =>
        LET v == call.view
            i == call.index.i
        IN /\ call.op = "frame" => result = Frame(v, i)
           /\ \A accessor \in {"groundtruth", "tags", "values"} :
                  call.op = ResolveOp(accessor) =>
                      /\ result.frame = Frame(v, i)
                      /\ result.data = SourceData(accessor, v, At(ClaimedMap(v)[i + 1]))

\* C3: for every view type and every valid index i, the handle frame(i) returns
\* has the view that was called as its owning sequence.
C3_HandleOwnedByCalledView ==
    (call.op = "frame" /\ InView(call.view, call.index.i)) =>
        /\ result.tag = "Frame"
        /\ result.sequence = call.view

\* A handle made by the outer view of a chain of two views.
C3_Witness ==
    /\ call.op = "frame" /\ call.view = 2
    /\ InView(2, call.index.i)
    /\ result.tag = "Frame" /\ result.sequence = 2

\* The number of entries x of the candidate list of view v with 0 <= x < length
\* of its source, repetitions counted.
ClaimedLength(v) ==
    Cardinality({k \in DOMAIN views[v].frame_map :
                     0 <= views[v].frame_map[k] /\ views[v].frame_map[k] < Seq_length(v - 1)})

\* C4: FrameRemap(S, m).length() is the number of entries x of m with
\* 0 <= x < S.length(), and a view stacked on top of it reports the same length.
C4_LengthIsValidCount ==
    call.op = "length" =>
        /\ OnFrameMap => result = PyInt(ClaimedLength(call.view))
        /\ (call.view = 2 /\ Kind(2) # "FrameMapSequence" /\ Kind(1) = "FrameMapSequence") =>
               result = PyInt(ClaimedLength(1))

\* A channel filter over a remapping view whose candidate list repeats an entry,
\* reporting a length other than the base sequence's.
C4_Witness ==
    /\ call.op = "length" /\ call.view = 2
    /\ Kind(2) = "ChannelFilterSequence" /\ Kind(1) = "FrameMapSequence"
    /\ Len(views[1].frame_map) = 2 /\ views[1].frame_map[1] = views[1].frame_map[2]
    /\ result.tag = "int" /\ result.value = 2 /\ result.value # srcLen

\* C5: ChannelFilter(S, requested).channels() is requested \cap S.channels().
C5_ChannelsIsIntersection ==
    (call.op = "channels" /\ OnChannelFilter /\ Seq_channels(call.view - 1).tag = "names") =>
        result = Names(views[call.view].channels \cap Seq_channels(call.view - 1).items)

\* C6: ChannelFilter(S, A).channel(n) is a channel iff n is in A \cap S.channels()
\* and None otherwise; not composed with a remapping view, the channel's frame(i)
\* is S.channel(n).frame(i) for 0 <= i < S.length().
C6_ChannelIffAllowed ==
    (call.op = "channel" /\ OnChannelFilter /\ Seq_channels(call.view - 1).tag = "names") =>
        LET v == call.view
            allowed == views[v].channels \cap Seq_channels(v - 1).items
        IN IF call.name \in allowed
           THEN /\ result.tag \in {"Channel", "FrameMapChannel"}
                /\ v = 1 => \A i \in 0..(srcLen - 1) :
                       Chan_frame(result, i) = Channel_frame(Sequence_channel(call.name), i)
           ELSE result = None

\* C7: view.frame(view.length()) fails with the out-of-range error for every view
\* type.
C7_FrameAtLengthRaises ==
    (call.op = "frame" /\ call.index.i = Seq_length(call.view)) =>
        result = IndexError

\* C8: on a frame-remapping view and on a channel remapper, a positional accessor
\* called with an index outside [0, length) fails with the out-of-range error.
C8_OutOfRangeRaises ==
    /\ (call.op \in {"groundtruth", "tags", "values"} /\ OnFrameMap
          /\ ~call.index.none /\ ~InView(call.view, call.index.i)) =>
           result = IndexError
    /\ (call.op \in {"channel.frame", "channel.filename"}
          /\ result.channel.tag = "FrameMapChannel"
          /\ ~(0 <= call.index.i /\ call.index.i < Len(result.channel._map))) =>
           result.data = IndexError

\* C9: FrameRemap(S, m).channel(c) is a channel remapper over the view's filtered
\* map: its length is the view's length, its frame(i) and filename(i) are those of
\* S.channel(c) at map[i] for 0 <= i < length, and it is None when S has no
\* channel c.
C9_ChannelRemappedInLockstep ==
    (OnFrameMap /\ ~IsRaise(Seq_channel(call.view - 1, call.name))) =>
        LET v == call.view
            map == ClaimedMap(v)
            sourcechannel == Seq_channel(v - 1, call.name)
        IN /\ call.op = "channel" =>
                  IF sourcechannel = None THEN result = None
                  ELSE result = FrameMapChannel(sourcechannel, map)
           /\ call.op = "channel.length" => result.data = PyInt(Seq_length(v))
           /\ (call.op = "channel.frame" /\ InView(v, call.index.i)) =>
                  result.data = Chan_frame(sourcechannel, map[call.index.i + 1])
           /\ (call.op = "channel.filename" /\ InView(v, call.index.i)) =>
                  result.data = Chan_filename(sourcechannel, map[call.index.i + 1])

\* A frame read through the channel of a remapping view whose map is not the
\* identity: the image is that of another source frame than the index asked.
C9_Witness ==
    /\ call.op = "channel.frame" /\ OnFrameMap /\ call.view = 1
    /\ InView(1, call.index.i)
    /\ result.data.tag = "image" /\ result.data.at # call.index.i
    /\ Len(views[1]._map) < Len(views[1].frame_map)

\* C10: on a frame-remapping view V, tags() and values() return a list of exactly
\* V.length() entries whose entry i is V.tags(i), respectively V.values(i).
C10_TagsValuesListThroughMap ==
    (call.op \in {"tags", "values"} /\ OnFrameMap /\ call.index.none) =>
        /\ result.tag = "list"
        /\ Len(result.items) = Seq_length(call.view)
        /\ \A i \in 1..Len(result.items) :
               result.items[i] = ViewData(call.op, call.view, At(i - 1))

====
